---- MODULE Spec2Model ----
(***************************************************************************)
(* Provenance and publication-integrity subsystem of the project template: *)
(*   scripts/provenance.py             sha256_file, git_state,             *)
(*                                     write_build_record                  *)
(*   scripts/check_git_state.py        the standalone policy checker       *)
(*   scripts/publish_artifacts.py      analysis-level publisher            *)
(*   scripts/publish_specific_files.py file-level publisher                *)
(*                                                                         *)
(* Nine specifications share the module:                                   *)
(*   Spec        whole CLI invocations (build, record, publish) as atomic  *)
(*               actions over the analysis repo and the paper tree         *)
(*   SpecPolicy  the policy checks over a repository that changes          *)
(*   SpecBuild   building and recording while files come and go            *)
(*   SpecRecord  write_build_record's temp-then-replace write, one step    *)
(*               per system call, with the process killed at any point     *)
(*   SpecRace    two publish invocations racing in save_yml on one ledger  *)
(*   SpecKinds   figures and tables published into one ledger              *)
(*   SpecStale   the pre-submission and the publisher's staleness checks    *)
(*   SpecConfig  run_analysis.py's configuration merge over an edited       *)
(*               shared/config.py                                          *)
(*   SpecArgs    filter_ipython_args over command lines                    *)
(***************************************************************************)
EXTENDS Integers, Sequences, FiniteSets, TLC

VARIABLES
    repo,      \* the analysis repository as git sees it
    dataFile,  \* data/housing_panel.csv: content or NoFile
    srcFile,   \* output/<kind>/<name>.<ext>: content or NoFile
    srcMtime,  \* output/<kind>/<name>.<ext>: st_mtime, the tick of its last write
    buildRec,  \* output/provenance/<name>.yml: parsed record or NoFile
    dstFile,   \* <paper_root>/<kind>/<name>.<ext>: content or NoFile
    ledger,    \* <paper_root>/provenance.yml: parsed mapping or NoFile
    clock,     \* wall clock, in ticks
    last,      \* the CLI invocation that just ran: arguments, outcome, and
               \* the paper tree it started from; NoCall once it has exited
    scope,     \* the output files this session removes and publishes
    opsLeft,   \* invocations and outside events still to come
    fsPath,    \* step-level file system: path -> inode or NoFile
    fsData,    \* step-level file system: inode -> sequence of written chunks
    proc,      \* step-level processes: position in the temp-then-replace write
    config,    \* shared/config.py as edited: DEFAULTS and STUDIES
    argv       \* sys.argv of the interpreter that imports shared.cli

vars == <<repo, dataFile, srcFile, srcMtime, buildRec, dstFile, ledger, clock, last,
          scope, opsLeft, fsPath, fsData, proc, config, argv>>
fsVars == <<fsPath, fsData, proc, config, argv>>

----------------------------------------------------------------------------
(* Bounds of the model *)

MaxOps == 4          \* invocations and outside events in one behaviour
MaxClock == 2        \* the clock stops here
TicksPerSecond == 2  \* clock ticks in one second of now_utc_iso's precision
MaxContent == 2      \* distinct file contents
MaxBehind == 1       \* largest behind-upstream count
MaxRuns == 3         \* runs of one build script in one behaviour
NChunks == 2         \* writes one yaml.safe_dump is flushed in
MaxEdits == 2        \* edits of shared/config.py in one behaviour
MaxArgs == 3         \* arguments after the script name in sys.argv
MaxFilters == 2      \* calls of filter_ipython_args by one interpreter

(* Program constants *)

ShortLen == 7        \* artifact_commit[:7]
LedgerVersion == 1   \* paper_provenance_version

----------------------------------------------------------------------------
(* Values *)

\* Values are kept comparable within their type: a missing file among
\* contents, a missing YAML file among parsed mappings, and Python's None among
\* strings, among counts and among mappings.
NoFile == 0                    \* Path.exists() is false (contents are 1..)
NoYml == [missing |-> TRUE]    \* a YAML file that does not exist
None == "None"                 \* None where a string is expected
NoCount == 0 - 1               \* None where a count is expected
NoneRecord == [none |-> TRUE]  \* None where a mapping is expected
EmptyStr == <<>>     \* Python's "" (commit ids are sequences of hex digits)

Names == {"price_base", "remodel_base"}
\* The longest --names / --files / --artifacts list: one word per analysis,
\* in any order and with repeats.
MaxNames == Cardinality(Names)
Kinds == {"figures", "tables"}
Contents == 1..MaxContent

\* Full commit ids, longer than the ShortLen digits an error message shows.
CommitA == <<1, 1, 1, 1, 1, 1, 1, 1>>
CommitB == <<2, 1, 1, 1, 1, 1, 1, 1>>
Commits == {CommitA, CommitB}

\* output/figures/<name>.pdf and output/tables/<name>.tex, as <<kind, name>>;
\* the same pair names the destination <paper_root>/<kind>/<name>.<ext>.
OutputFiles == Kinds \X Names
\* A file of the project that is not under output/.
OutsideFile == <<"docs", "notes">>

(* Python dict operations on functions with a finite domain *)

EmptyDict == <<>>
Get(d, k, default) == IF k \in DOMAIN d THEN d[k] ELSE default
Put(d, k, v) == [y \in (DOMAIN d) \cup {k} |-> IF y = k THEN v ELSE d[y]]
Del(d, k) == [y \in (DOMAIN d) \ {k} |-> d[y]]
SetDefault(d, k, v) == IF k \in DOMAIN d THEN d ELSE Put(d, k, v)

\* Python truthiness of a commit string
Truthy(s) == s # EmptyStr

\* Sequences over S of length at most n (a list may name an element twice)
RECURSIVE SeqsUpTo(_, _)
SeqsUpTo(S, n) ==
    IF n = 0 THEN {<<>>}
    ELSE LET shorter == SeqsUpTo(S, n - 1)
         IN shorter \cup {Append(s, x) : s \in {t \in shorter : Len(t) = n - 1},
                                         x \in S}

----------------------------------------------------------------------------
(* scripts/provenance.py *)

\* sha256_file: the digest of a file's bytes. Equal content gives equal
\* digests and different content different ones; a missing file raises.
Sha256(content) == <<"sha256", content>>

\* now_utc_iso: the clock cut to whole seconds.
NowUtcIso == clock \div TicksPerSecond

\* _run_git(["rev-parse", "HEAD"]): the head commit, or None on any exception:
\* no repository here, no git binary, or a repository git cannot read.
RunGitRevParseHead ==
    IF repo.versioned /\ ~repo.broken THEN repo.head ELSE EmptyStr

\* check_call(["git", "diff", "--quiet"]): returns when no tracked file
\* differs from the index, raises CalledProcessError otherwise.
GitDiffQuiet == ~repo.unstaged

\* check_call(["git", "diff", "--cached", "--quiet"]): returns when the index
\* equals the head commit, raises otherwise.
GitDiffCachedQuiet == ~repo.staged

\* git_state lines 40-48: dirty stays False when both calls return, and the
\* except clause sets it when either raises.
DirtyUnstagedOnly == ~GitDiffQuiet
Dirty == ~(GitDiffQuiet /\ GitDiffCachedQuiet)

\* _run_git(["rev-parse", "--abbrev-ref", "--symbolic-full-name", "@{u}"]):
\* the upstream ref, or None when the branch tracks none.
RunGitUpstream == IF repo.upstream THEN "origin/main" ELSE None

\* _run_git(["rev-list", "--left-right", "--count", "HEAD...upstream"]),
\* split at the tab: commits only in HEAD, commits only in the upstream.
RunGitRevList == <<repo.ahead, repo.behind>>

\* git_state lines 55-63: ahead = behind = None, and both are assigned from
\* the one rev-list output when an upstream is configured.
AheadBehindUnguarded == RunGitRevList
AheadBehind ==
    IF RunGitUpstream # None THEN RunGitRevList ELSE <<NoCount, NoCount>>

\* git_state that reports every field, also outside a repository
GitStateAllFields ==
    [is_git_repo |-> RunGitRevParseHead # EmptyStr,
     commit |-> RunGitRevParseHead,
     branch |-> repo.branch,
     dirty |-> (repo.unstaged \/ repo.staged),
     upstream |-> IF repo.upstream THEN "origin/main" ELSE None,
     ahead |-> IF repo.upstream THEN repo.ahead ELSE NoCount,
     behind |-> IF repo.upstream THEN repo.behind ELSE NoCount]

\* git_state: {"is_git_repo": False} when rev-parse HEAD gave None, else the
\* commit, branch, dirty flag, upstream and ahead/behind counts.
GitState ==
    IF RunGitRevParseHead = EmptyStr THEN [is_git_repo |-> FALSE]
    ELSE [is_git_repo |-> TRUE,
          commit |-> repo.head,
          branch |-> repo.branch,
          dirty |-> Dirty,
          upstream |-> RunGitUpstream,
          ahead |-> AheadBehind[1],
          behind |-> AheadBehind[2]]

\* One entry of input_records / output_records.
FileRecord(path, content, mtime) ==
    [path |-> path, sha256 |-> Sha256(content), bytes |-> content, mtime |-> mtime]

\* The data file is never rewritten: its st_mtime stays what it was.
DataMtime == 0

\* config.ANALYSES[name]: the declared outputs of an analysis.
DeclaredOutputs(name) == << <<"figures", name>>, <<"tables", name>> >>

\* sha256_file and stat raise for a path that does not exist: TRUE iff the
\* loops of write_build_record (lines 93-114) get through every path.
PathsAssumed(name, outputs) == TRUE
PathsExist(name, outputs) ==
    /\ dataFile # NoFile
    /\ \A i \in 1..2 : outputs[DeclaredOutputs(name)[i]] # NoFile

\* a record that takes over the inputs listed by the record it replaces
BuildRecordMerged(name, command, outputs, mtimes) ==
    [artifact |-> name,
     built_at_utc |-> NowUtcIso,
     command |-> command,
     git |-> GitState,
     inputs |-> (IF buildRec[name] = NoYml THEN <<>> ELSE buildRec[name].inputs)
                \o << FileRecord("housing", dataFile, DataMtime) >>,
     outputs |-> [i \in 1..2 |->
                    FileRecord(DeclaredOutputs(name)[i],
                               outputs[DeclaredOutputs(name)[i]],
                               mtimes[DeclaredOutputs(name)[i]])]]

\* The record write_build_record assembles (lines 92-123).
BuildRecordOf(name, command, outputs, mtimes) ==
    [artifact |-> name,
     built_at_utc |-> NowUtcIso,
     command |-> command,
     git |-> GitState,
     inputs |-> << FileRecord("housing", dataFile, DataMtime) >>,
     outputs |-> [i \in 1..2 |->
                    FileRecord(DeclaredOutputs(name)[i],
                               outputs[DeclaredOutputs(name)[i]],
                               mtimes[DeclaredOutputs(name)[i]])]]

----------------------------------------------------------------------------
(* Outcomes of a CLI invocation *)

Pass == [verdict |-> "pass"]
Reject(reason, detail) == [verdict |-> "reject", reason |-> reason, detail |-> detail]
Rejected(outcome) == outcome.verdict = "reject"

NoCall == [op |-> "none"]

\* artifact_commit[:7]
Short(commit) == SubSeq(commit, 1, ShortLen)

----------------------------------------------------------------------------
(* scripts/publish_artifacts.py: the tree-level gate and the staleness check *)

\* the gate with the behind-upstream test ahead of the dirty-tree test
EnforceGitPolicyBehindFirst(allow_dirty, require_not_behind) ==
    LET state == GitState
        behind == Get(state, "behind", NoCount)
    IN  IF ~Get(state, "is_git_repo", FALSE) THEN Pass
        ELSE IF require_not_behind /\ behind # NoCount /\ behind > 0
            THEN Reject("behind", <<behind>>)
        ELSE IF Get(state, "dirty", FALSE) /\ ~allow_dirty
            THEN Reject("dirty_tree", <<>>)
        ELSE Pass

\* the gate taking a missing behind count for a branch that is behind
\* (a test of behind != 0 in place of behind is not None and behind > 0)
EnforceGitPolicyNoneIsBehind(allow_dirty, require_not_behind) ==
    LET state == GitState
        behind == Get(state, "behind", NoCount)
    IN  IF ~Get(state, "is_git_repo", FALSE) THEN Pass
        ELSE IF Get(state, "dirty", FALSE) /\ ~allow_dirty
            THEN Reject("dirty_tree", <<>>)
        ELSE IF require_not_behind /\ behind # 0
            THEN Reject("behind", <<behind>>)
        ELSE Pass

\* the gate without the behind-upstream test
EnforceGitPolicyNoBehindTest(allow_dirty, require_not_behind) ==
    LET state == GitState
    IN  IF ~Get(state, "is_git_repo", FALSE) THEN Pass
        ELSE IF Get(state, "dirty", FALSE) /\ ~allow_dirty
            THEN Reject("dirty_tree", <<>>)
        ELSE Pass

\* enforce_git_policy (lines 35-54): SystemExit or the inspected state.
EnforceGitPolicy(allow_dirty, require_not_behind) ==
    LET state == GitState
        behind == Get(state, "behind", NoCount)
    IN  IF ~Get(state, "is_git_repo", FALSE) THEN Pass
        ELSE IF Get(state, "dirty", FALSE) /\ ~allow_dirty
            THEN Reject("dirty_tree", <<>>)
        ELSE IF require_not_behind /\ behind # NoCount /\ behind > 0
            THEN Reject("behind", <<behind>>)
        ELSE Pass

\* The commit a staleness check reads out of a build record.
ArtifactCommit(meta) == Get(meta, "git_commit", EmptyStr)

\* The loop of check_artifacts_current (lines 59-66), from position i on.
RECURSIVE StaleFrom(_, _, _)
StaleFrom(names, i, current_commit) ==
    IF i > Len(names) THEN <<>>
    ELSE LET name == names[i]
             rest == StaleFrom(names, i + 1, current_commit)
         IN  IF buildRec[name] = NoYml THEN rest
             ELSE LET artifact_commit == ArtifactCommit(buildRec[name])
                  IN  IF Truthy(artifact_commit) /\ artifact_commit # current_commit
                      THEN << <<name, Short(artifact_commit), Short(current_commit)>> >>
                           \o rest
                      ELSE rest

\* check_artifacts_current (lines 57-73)
CheckArtifactsCurrent(names, current_commit) ==
    LET stale == StaleFrom(names, 1, current_commit)
    IN  IF stale # <<>> THEN Reject("stale", stale) ELSE Pass

----------------------------------------------------------------------------
(* scripts/pre_submit_check.py: PreSubmitChecker.check_provenance *)

\* prov_dir.glob("*.yml"): the artifacts that have a build record.
ProvFiles == {n \in Names : buildRec[n] # NoYml}

\* lines 300-307: the output of git rev-parse HEAD, or None (modelled as the
\* empty commit) when git returns a non-zero code.
PreSubmitCurrentCommit == RunGitRevParseHead

\* data.get("git", {}).get("commit", "")
ProvCommit(data) == Get(Get(data, "git", EmptyDict), "commit", EmptyStr)

\* lines 318-326: the artifacts collected in stale_artifacts.
StaleArtifacts ==
    {n \in ProvFiles :
        Truthy(PreSubmitCurrentCommit) /\ ProvCommit(buildRec[n]) # PreSubmitCurrentCommit}

\* check_provenance (lines 287-340): the CheckResult it appends.
CheckProvenance(strict) ==
    IF ProvFiles = {}
    THEN [name |-> "Provenance Complete", passed |-> FALSE, stale |-> {}]
    ELSE IF StaleArtifacts = {}
    THEN [name |-> "Provenance Current", passed |-> TRUE, stale |-> {}]
    ELSE [name |-> "Provenance Current", passed |-> ~strict, stale |-> StaleArtifacts]

----------------------------------------------------------------------------
(* scripts/check_git_state.py *)

\* The loop collecting dirty_artifacts (lines 47-54), from position i on.
RECURSIVE DirtyFrom(_, _)
DirtyFrom(names, i) ==
    IF i > Len(names) THEN <<>>
    ELSE LET name == names[i]
             rest == DirtyFrom(names, i + 1)
         IN  IF buildRec[name] = NoYml THEN rest
             ELSE LET git_info == Get(buildRec[name], "git", EmptyDict)
                  IN  IF Get(git_info, "dirty", FALSE)
                      THEN <<name>> \o rest ELSE rest

\* the standalone checker without its early return outside a repository
CheckGitStateNoEarlyReturn(allow_dirty, require_not_behind, require_current_head, names) ==
    LET state == GitState
        behind == Get(state, "behind", NoCount)
        dirty_artifacts == DirtyFrom(names, 1)
        current_commit == Get(state, "commit", EmptyStr)
        stale == StaleFrom(names, 1, current_commit)
    IN  IF Get(state, "dirty", FALSE) /\ ~allow_dirty
            THEN Reject("dirty_tree", <<>>)
        ELSE IF require_not_behind /\ behind # NoCount /\ behind > 0
            THEN Reject("behind", <<behind>>)
        ELSE IF names = <<>> THEN Pass
        ELSE IF dirty_artifacts # <<>> /\ ~allow_dirty
            THEN Reject("dirty_artifacts", dirty_artifacts)
        ELSE IF require_current_head /\ Truthy(current_commit) /\ stale # <<>>
            THEN Reject("stale", stale)
        ELSE Pass

\* main (lines 15-82): the verdict of the standalone checker.
CheckGitStateMain(allow_dirty, require_not_behind, require_current_head, names) ==
    LET state == GitState
        behind == Get(state, "behind", NoCount)
        dirty_artifacts == DirtyFrom(names, 1)
        current_commit == Get(state, "commit", EmptyStr)
        stale == StaleFrom(names, 1, current_commit)
    IN  IF ~Get(state, "is_git_repo", FALSE) THEN Pass
        ELSE IF Get(state, "dirty", FALSE) /\ ~allow_dirty
            THEN Reject("dirty_tree", <<>>)
        ELSE IF require_not_behind /\ behind # NoCount /\ behind > 0
            THEN Reject("behind", <<behind>>)
        ELSE IF names = <<>> THEN Pass
        ELSE IF dirty_artifacts # <<>> /\ ~allow_dirty
            THEN Reject("dirty_artifacts", dirty_artifacts)
        ELSE IF require_current_head /\ Truthy(current_commit) /\ stale # <<>>
            THEN Reject("stale", stale)
        ELSE Pass

----------------------------------------------------------------------------
(* scripts/publish_artifacts.py and scripts/publish_specific_files.py:
   the publishers *)

Error(reason, detail) == [verdict |-> "error", reason |-> reason, detail |-> detail]
Succeeded(outcome) == outcome.verdict = "pass"

\* load_yml(prov_path) if prov_path.exists() else {}
LoadLedger == IF ledger = NoYml THEN EmptyDict ELSE ledger

\* shutil.copy2 whatever the destination holds
CopyAlways(src, dst) == TRUE

\* copy_if_changed (both publishers): TRUE iff src is copied onto dst.
CopyIfChanged(src, dst) ==
    ~(dst # NoFile /\ Sha256(src) = Sha256(dst))

\* The destination content after copy_if_changed(src, dst).
AfterCopy(src, dst) == IF CopyIfChanged(src, dst) THEN src ELSE dst

\* the digest of the destination from before the copy
DstSha256Reused(src, dst) == Sha256(dst)

\* The digest a ledger entry records for the destination (sha256_file(dst)
\* after the copy step).
DstSha256(src, dst) == Sha256(AfterCopy(src, dst))

\* publish_artifacts.main lines 144-152: the entry of one (name, kind).
ArtifactEntry(name, kind, dst) ==
    LET f == <<kind, name>>
        copied == CopyIfChanged(srcFile[f], dst[f])
    IN  [published_at_utc |-> NowUtcIso,
         copied |-> copied,
         src |-> <<"output">> \o f,
         dst |-> <<"paper">> \o f,
         dst_sha256 |-> DstSha256(srcFile[f], dst[f]),
         build_record |-> buildRec[name]]

\* publish_artifacts.main lines 124-152: the loop over names from position i
\* on, threading the destination tree and the in-memory ledger. A SystemExit
\* inside the loop leaves the copies made so far in the destination tree.
\* the loop writing a fresh mapping for the name in place of its entry
RECURSIVE ArtifactLoopReplacesName(_, _, _, _, _)
ArtifactLoopReplacesName(kind, names, i, dst, prov) ==
    IF i > Len(names) THEN [outcome |-> Pass, dst |-> dst, prov |-> prov]
    ELSE LET name == names[i]
             f == <<kind, name>>
         IN  IF buildRec[name] = NoYml
             THEN [outcome |-> Error("missing_build_record", <<name>>),
                   dst |-> dst, prov |-> prov]
             ELSE IF srcFile[f] = NoFile
             THEN [outcome |-> Error("missing_source", <<name>>),
                   dst |-> dst, prov |-> prov]
             ELSE LET entry == ArtifactEntry(name, kind, dst)
                      arts2 == Put(prov.artifacts, name, Put(EmptyDict, kind, entry))
                  IN  ArtifactLoopReplacesName(kind, names, i + 1,
                                   [dst EXCEPT ![f] = AfterCopy(srcFile[f], dst[f])],
                                   Put(prov, "artifacts", arts2))

\* the loop passing over names that were not built
RECURSIVE ArtifactLoopSkipsMissing(_, _, _, _, _)
ArtifactLoopSkipsMissing(kind, names, i, dst, prov) ==
    IF i > Len(names) THEN [outcome |-> Pass, dst |-> dst, prov |-> prov]
    ELSE LET name == names[i]
             f == <<kind, name>>
         IN  IF buildRec[name] = NoYml \/ srcFile[f] = NoFile
             THEN ArtifactLoopSkipsMissing(kind, names, i + 1, dst, prov)
             ELSE LET arts == SetDefault(prov.artifacts, name, EmptyDict)
                      entry == ArtifactEntry(name, kind, dst)
                      arts2 == Put(arts, name, Put(arts[name], kind, entry))
                  IN  ArtifactLoopSkipsMissing(kind, names, i + 1,
                                   [dst EXCEPT ![f] = AfterCopy(srcFile[f], dst[f])],
                                   Put(prov, "artifacts", arts2))

RECURSIVE ArtifactLoop(_, _, _, _, _)
ArtifactLoop(kind, names, i, dst, prov) ==
    IF i > Len(names) THEN [outcome |-> Pass, dst |-> dst, prov |-> prov]
    ELSE LET name == names[i]
             f == <<kind, name>>
         IN  IF buildRec[name] = NoYml
             THEN [outcome |-> Error("missing_build_record", <<name>>),
                   dst |-> dst, prov |-> prov]
             ELSE IF srcFile[f] = NoFile
             THEN [outcome |-> Error("missing_source", <<name>>),
                   dst |-> dst, prov |-> prov]
             ELSE LET arts == SetDefault(prov.artifacts, name, EmptyDict)
                      entry == ArtifactEntry(name, kind, dst)
                      arts2 == Put(arts, name, Put(arts[name], kind, entry))
                  IN  ArtifactLoop(kind, names, i + 1,
                                   [dst EXCEPT ![f] = AfterCopy(srcFile[f], dst[f])],
                                   Put(prov, "artifacts", arts2))

\* publish_artifacts.main lines 117-122: the ledger as loaded and defaulted.
ArtifactLedgerStart(gitinfo) ==
    SetDefault(
      SetDefault(
        SetDefault(
          SetDefault(LoadLedger, "paper_provenance_version", LedgerVersion),
          "last_updated_utc", NowUtcIso),
        "analysis_git", gitinfo),
      "artifacts", EmptyDict)

\* publish_artifacts.main: outcome, destination tree and ledger file after
\* one invocation.
PublishArtifactsMain(kind, names, allow_dirty, require_not_behind, require_current_head) ==
    LET gate == EnforceGitPolicy(allow_dirty, require_not_behind)
        gitinfo == GitState
        current_commit == Get(gitinfo, "commit", EmptyStr)
        current == IF require_current_head /\ Get(gitinfo, "is_git_repo", FALSE)
                      /\ Truthy(current_commit)
                   THEN CheckArtifactsCurrent(names, current_commit)
                   ELSE Pass
        loop == ArtifactLoop(kind, names, 1, dstFile, ArtifactLedgerStart(gitinfo))
        unchanged(outcome) == [outcome |-> outcome, dst |-> dstFile, ledger |-> ledger]
    IN  IF Rejected(gate) THEN unchanged(gate)
        ELSE IF names = <<>> THEN unchanged(Error("no_names", <<>>))
        ELSE IF Rejected(current) THEN unchanged(current)
        ELSE IF ~Succeeded(loop.outcome)
            THEN [outcome |-> loop.outcome, dst |-> loop.dst, ledger |-> ledger]
        ELSE [outcome |-> Pass, dst |-> loop.dst,
              ledger |-> Put(loop.prov, "last_updated_utc", NowUtcIso)]

\* infer_analysis_name (publish_specific_files lines 51-71): the build record
\* whose outputs list the path, or None.
InferAnalysisName(f) ==
    LET owners == {n \in Names :
                     /\ buildRec[n] # NoYml
                     /\ \E i \in DOMAIN Get(buildRec[n], "outputs", <<>>) :
                            buildRec[n].outputs[i].path = f}
    IN  IF owners = {} THEN None ELSE CHOOSE n \in owners : TRUE

\* publish_specific_files.main lines 131-156: the entry of one file.
FileEntry(f, dst) ==
    LET analysis_name == InferAnalysisName(f)
        copied == CopyIfChanged(srcFile[f], dst[f])
    IN  [published_at_utc |-> NowUtcIso,
         copied |-> copied,
         src |-> <<"output">> \o f,
         dst |-> <<"paper">> \o f,
         dst_sha256 |-> DstSha256(srcFile[f], dst[f]),
         analysis_name |-> analysis_name,
         build_record |-> IF analysis_name # None /\ buildRec[analysis_name] # NoYml
                          THEN buildRec[analysis_name] ELSE NoneRecord]

\* publish_specific_files.main lines 110-156: the loop over files.
RECURSIVE FileLoop(_, _, _, _)
FileLoop(files, i, dst, prov) ==
    IF i > Len(files) THEN [outcome |-> Pass, dst |-> dst, prov |-> prov]
    ELSE LET f == files[i]
         IN  IF f # OutsideFile /\ srcFile[f] = NoFile
             THEN [outcome |-> Error("source_not_found", <<f>>),
                   dst |-> dst, prov |-> prov]
             ELSE IF f = OutsideFile
             THEN [outcome |-> Error("not_in_output", <<f>>),
                   dst |-> dst, prov |-> prov]
             ELSE FileLoop(files, i + 1,
                           [dst EXCEPT ![f] = AfterCopy(srcFile[f], dst[f])],
                           Put(prov, "files", Put(prov.files, f, FileEntry(f, dst))))

\* publish_specific_files.main lines 94-106: the ledger as loaded, defaulted
\* and switched to file-level tracking.
FileLedgerStart(gitinfo) ==
    LET prov == SetDefault(
                  SetDefault(
                    SetDefault(LoadLedger, "paper_provenance_version", LedgerVersion),
                    "last_updated_utc", NowUtcIso),
                  "analysis_git", gitinfo)
    IN  Del(Put(prov, "files", EmptyDict), "artifacts")

\* publish_specific_files.main: the flags are parsed (lines 79-81) and never
\* read; the repository state is inspected (line 87) and no policy applied.
PublishSpecificFilesMain(files, allow_dirty, require_not_behind, require_current_head) ==
    LET gitinfo == GitState
        loop == FileLoop(files, 1, dstFile, FileLedgerStart(gitinfo))
    IN  IF files = <<>>
        THEN [outcome |-> Error("no_files", <<>>), dst |-> dstFile, ledger |-> ledger]
        ELSE IF ~Succeeded(loop.outcome)
        THEN [outcome |-> loop.outcome, dst |-> loop.dst, ledger |-> ledger]
        ELSE [outcome |-> Pass, dst |-> loop.dst,
              ledger |-> Put(loop.prov, "last_updated_utc", NowUtcIso)]

----------------------------------------------------------------------------
(* Whole invocations as actions *)

Flags == BOOLEAN \X BOOLEAN \X BOOLEAN
\* The argparse defaults of --require-not-behind and --require-current-head.
DefaultFlags == {<<allow_dirty, TRUE, FALSE>> : allow_dirty \in BOOLEAN}
NotBehindFlags == {fl \in Flags : fl[2]}

ScopeKinds == {f[1] : f \in scope}
ScopeNames(kind) == {f[2] : f \in {g \in scope : g[1] = kind}}

Call(op, kind, names, flags, outcome) ==
    [op |-> op, kind |-> kind, names |-> names,
     allow_dirty |-> flags[1], require_not_behind |-> flags[2],
     require_current_head |-> flags[3], outcome |-> outcome,
     pre |-> [dst |-> dstFile, ledger |-> ledger, rec |-> buildRec]]

\* The state of the step-level variables while whole invocations run.
FsIdle ==
    /\ fsPath = <<>>
    /\ fsData = <<>>
    /\ proc = <<>>

----------------------------------------------------------------------------
(* shared/config.py and run_analysis.py: the configuration merge *)

\* The configuration keys followed: one that only DEFAULTS sets, one that
\* DEFAULTS and every study set, one that only the studies set, and the one
\* whose option has a docopt default.
CfgKeys == {"xvar", "title", "yvar", "table_agg"}

\* config.DEFAULTS and config.STUDIES as shipped, over CfgKeys.
ShippedConfig ==
    [DEFAULTS |-> [xvar |-> "year", title |-> "Analysis", table_agg |-> "mean"],
     STUDIES |-> [price_base |-> [title |-> "Price index over time",
                                  yvar |-> "price_index"],
                  remodel_base |-> [title |-> "Remodeling activity over time",
                                    yvar |-> "remodel_rate"]]]

\* override_map (lines 84-95), read from the config key to the option.
OptionOf(cfg_key) == IF cfg_key = "table_agg" THEN "--table-agg" ELSE "--" \o cfg_key
Options == {OptionOf(k) : k \in CfgKeys}

\* The value a command line gives to an option: empty (--title=) or not.
CliValues == {"", "median"}

\* The command lines: a value for each option the user typed.
CommandLines == UNION {[g -> CliValues] : g \in SUBSET Options}

\* The "[default: mean]" of --table-agg in the usage text (line 35).
DocoptDefault == "mean"

\* friendly_docopt(__doc__): every option of the usage text is in the result,
\* with the typed value, else its [default: ...], else None.
Docopt(given) ==
    [o \in Options |->
        IF o \in DOMAIN given THEN given[o]
        ELSE IF o = "--table-agg" THEN DocoptDefault
        ELSE None]

\* Python truthiness of args.get(arg_name): None and "" are false.
TruthyArg(v) == v # None /\ v # ""

\* dict.update
Update(d, e) == [k \in (DOMAIN d) \cup (DOMAIN e) |-> IF k \in DOMAIN e THEN e[k] ELSE d[k]]

\* build_config (lines 68-101)
BuildConfig(study_name, args) ==
    LET merged == IF study_name \in DOMAIN config.STUDIES
                  THEN Update(config.DEFAULTS, config.STUDIES[study_name])
                  ELSE config.DEFAULTS
        overridden == {k \in CfgKeys : TruthyArg(Get(args, OptionOf(k), None))}
    IN  [k \in (DOMAIN merged) \cup overridden |->
            IF k \in overridden THEN args[OptionOf(k)] ELSE merged[k]]

\* The values an edit of config.py writes.
EditValue(k) == IF k = "table_agg" THEN "sum" ELSE "custom"

----------------------------------------------------------------------------
(* shared/cli.py: filter_ipython_args *)

\* An argument is the sequence of its pieces: "--", "-", "=" and "." stand
\* for themselves and no other piece contains them.

\* ipython_flags (lines 229-255)
IpythonFlags ==
    {<<"--", "simple-prompt">>, <<"-", "i">>,
     <<"--", "InteractiveShell", ".", "ast_node_interactivity", "=", "all">>,
     <<"--", "profile-dir">>, <<"--", "ipython-dir">>, <<"--", "colors">>,
     <<"--", "quick">>, <<"--", "classic">>,
     <<"--", "autoindent">>, <<"--", "no-autoindent">>,
     <<"--", "automagic">>, <<"--", "no-automagic">>,
     <<"--", "pdb">>, <<"--", "no-pdb">>,
     <<"--", "pprint">>, <<"--", "no-pprint">>,
     <<"--", "color-info">>, <<"--", "no-color-info">>,
     <<"--", "nosep">>,
     <<"--", "term-title">>, <<"--", "no-term-title">>,
     <<"--", "banner">>, <<"--", "no-banner">>,
     <<"--", "confirm-exit">>, <<"--", "no-confirm-exit">>}

\* str.startswith and the in operator on strings
StartsWith(arg, prefix) ==
    Len(arg) >= Len(prefix) /\ SubSeq(arg, 1, Len(prefix)) = prefix
Contains(arg, piece) == \E i \in DOMAIN arg : arg[i] = piece

\* The three tests of the loop (lines 264, 269, 274): TRUE iff arg is skipped.
Skipped(arg) ==
    \/ arg \in IpythonFlags
    \/ \E flag \in IpythonFlags : StartsWith(arg, flag \o <<"=">>)
    \/ StartsWith(arg, <<"--">>) /\ Contains(arg, ".") /\ Contains(arg, "=")

Kept(arg) == ~Skipped(arg)

\* filter_ipython_args (lines 257-282): the new sys.argv.
FilterIpythonArgs(sys_argv) == <<sys_argv[1]>> \o SelectSeq(Tail(sys_argv), Kept)

\* sys.argv before any script has been started.
NoArgv == <<>>

Unversioned ==
    [versioned |-> FALSE, broken |-> FALSE, head |-> EmptyStr, branch |-> None,
     unstaged |-> FALSE, staged |-> FALSE, upstream |-> FALSE, ahead |-> 0,
     behind |-> 0]

Versioned(upstream, behind) ==
    [versioned |-> TRUE, broken |-> FALSE, head |-> CommitA, branch |-> "main",
     unstaged |-> FALSE, staged |-> FALSE, upstream |-> upstream, ahead |-> 0,
     behind |-> behind]

\* Nothing built, nothing published.
InitCli ==
    /\ dataFile = 1
    /\ srcFile = [f \in OutputFiles |-> NoFile]
    /\ srcMtime = [f \in OutputFiles |-> 0]
    /\ buildRec = [n \in Names |-> NoYml]
    /\ dstFile = [f \in OutputFiles |-> NoFile]
    /\ ledger = NoYml
    /\ clock = 0
    /\ last = NoCall
    /\ config = ShippedConfig
    /\ argv = NoArgv

\* The invocation's process exits.
Exit ==
    /\ last # NoCall
    /\ last' = NoCall
    /\ UNCHANGED opsLeft
    /\ UNCHANGED <<repo, dataFile, srcFile, srcMtime, buildRec, dstFile, ledger, clock, scope,
                   fsPath, fsData, proc, config, argv>>

\* Time passes.
Tick ==
    /\ last = NoCall
    /\ opsLeft > 0
    /\ opsLeft' = opsLeft - 1
    /\ \E later \in (clock + 1)..MaxClock : clock' = later
    /\ UNCHANGED <<repo, dataFile, srcFile, srcMtime, buildRec, dstFile, ledger, last, scope,
                   fsPath, fsData, proc, config, argv>>

\* The operator edits a tracked file.
GitEdit ==
    /\ last = NoCall
    /\ opsLeft > 0
    /\ opsLeft' = opsLeft - 1
    /\ repo.versioned /\ ~repo.unstaged
    /\ repo' = [repo EXCEPT !.unstaged = TRUE]
    /\ UNCHANGED <<dataFile, srcFile, srcMtime, buildRec, dstFile, ledger, clock, last, scope,
                   fsPath, fsData, proc, config, argv>>

\* git add: the edit moves to the index.
GitAdd ==
    /\ last = NoCall
    /\ opsLeft > 0
    /\ opsLeft' = opsLeft - 1
    /\ repo.versioned /\ ~repo.broken /\ repo.unstaged
    /\ repo' = [repo EXCEPT !.unstaged = FALSE, !.staged = TRUE]
    /\ UNCHANGED <<dataFile, srcFile, srcMtime, buildRec, dstFile, ledger, clock, last, scope,
                   fsPath, fsData, proc, config, argv>>

\* git commit -a (or a pull, or a checkout): a new head, a clean tree.
GitCommit ==
    /\ last = NoCall
    /\ opsLeft > 0
    /\ opsLeft' = opsLeft - 1
    /\ repo.versioned /\ ~repo.broken
    /\ \E c \in Commits \ {repo.head} :
          repo' = [repo EXCEPT !.head = c, !.unstaged = FALSE, !.staged = FALSE]
    /\ UNCHANGED <<dataFile, srcFile, srcMtime, buildRec, dstFile, ledger, clock, last, scope,
                   fsPath, fsData, proc, config, argv>>

\* The project leaves version control: the .git directory is removed, or the
\* tree is exported to a place without one.
GitRemove ==
    /\ last = NoCall
    /\ opsLeft > 0
    /\ opsLeft' = opsLeft - 1
    /\ repo.versioned
    /\ repo' = Unversioned
    /\ UNCHANGED <<dataFile, srcFile, srcMtime, buildRec, dstFile, ledger, clock, last, scope,
                   fsPath, fsData, proc, config, argv>>

\* git stops working on a repository that is still there: the binary is no
\* longer on the PATH, or the object store is corrupted.
GitBreak ==
    /\ last = NoCall
    /\ opsLeft > 0
    /\ opsLeft' = opsLeft - 1
    /\ repo.versioned /\ ~repo.broken
    /\ repo' = [repo EXCEPT !.broken = TRUE]
    /\ UNCHANGED <<dataFile, srcFile, srcMtime, buildRec, dstFile, ledger, clock, last, scope,
                   fsPath, fsData, proc, config, argv>>

\* build_price_base.main / build_remodel_base.main: the build script writes
\* the table and the figure of its analysis, then the build record; what it
\* writes depends on the data and on the code of the day.
RunBuild ==
    /\ last = NoCall
    /\ opsLeft > 0
    /\ opsLeft' = opsLeft - 1
    /\ \E n \in Names, c \in Contents :
          IF dataFile = NoFile
          THEN UNCHANGED <<srcFile, srcMtime, buildRec>>
          ELSE /\ srcFile' = [f \in OutputFiles |->
                                IF f[2] = n THEN c ELSE srcFile[f]]
               /\ srcMtime' = [f \in OutputFiles |->
                                 IF f[2] = n THEN clock ELSE srcMtime[f]]
               /\ buildRec' = [buildRec EXCEPT ![n] =
                                  BuildRecordOf(n, <<"python", n, "--data", "housing">>,
                                                srcFile', srcMtime')]
    /\ UNCHANGED <<repo, dataFile, dstFile, ledger, clock, last, scope,
                   fsPath, fsData, proc, config, argv>>

\* The operator deletes one output file.
RemoveOutput ==
    /\ last = NoCall
    /\ opsLeft > 0
    /\ opsLeft' = opsLeft - 1
    /\ \E f \in scope :
          /\ srcFile[f] # NoFile
          /\ srcFile' = [srcFile EXCEPT ![f] = NoFile]
          /\ srcMtime' = [srcMtime EXCEPT ![f] = 0]
    /\ UNCHANGED <<repo, dataFile, buildRec, dstFile, ledger, clock, last, scope,
                   fsPath, fsData, proc, config, argv>>

\* The operator deletes the data file.
RemoveInput ==
    /\ last = NoCall
    /\ opsLeft > 0
    /\ opsLeft' = opsLeft - 1
    /\ dataFile # NoFile
    /\ dataFile' = NoFile
    /\ UNCHANGED <<repo, srcFile, srcMtime, buildRec, dstFile, ledger, clock, last,
                   scope, fsPath, fsData, proc, config, argv>>

\* record_provenance.main -> write_build_record: hashing a missing file
\* raises and nothing is written; else the record replaces the old one.
WriteBuildRecord ==
    /\ last = NoCall
    /\ opsLeft > 0
    /\ opsLeft' = opsLeft - 1
    /\ \E n \in Names :
          LET present == PathsExist(n, srcFile)
          IN  /\ buildRec' = IF present
                             THEN [buildRec EXCEPT ![n] =
                                     BuildRecordOf(n, <<"make", n>>, srcFile, srcMtime)]
                             ELSE buildRec
              /\ last' = Call("write_build_record", None, <<n>>, <<FALSE, FALSE, FALSE>>,
                              IF present THEN Pass ELSE Error("missing_file", <<n>>))
    /\ UNCHANGED <<repo, dataFile, srcFile, srcMtime, dstFile, ledger, clock, scope,
                   fsPath, fsData, proc, config, argv>>

\* a checker that leaves a stamp of its run in the ledger
CheckGitStateStamping ==
    /\ last = NoCall
    /\ opsLeft > 0
    /\ opsLeft' = opsLeft - 1
    /\ \E fl \in Flags, names \in SeqsUpTo(Names, MaxNames) :
          last' = Call("check_git_state", None, names, fl,
                       CheckGitStateMain(fl[1], fl[2], fl[3], names))
    /\ ledger' = Put(LoadLedger, "last_checked_utc", NowUtcIso)
    /\ UNCHANGED <<repo, dataFile, srcFile, srcMtime, buildRec, dstFile, clock, scope,
                   fsPath, fsData, proc, config, argv>>

\* check_git_state.main
CheckGitState ==
    /\ last = NoCall
    /\ opsLeft > 0
    /\ opsLeft' = opsLeft - 1
    /\ \E fl \in Flags, names \in SeqsUpTo(Names, MaxNames) :
          last' = Call("check_git_state", None, names, fl,
                       CheckGitStateMain(fl[1], fl[2], fl[3], names))
    /\ UNCHANGED <<repo, dataFile, srcFile, srcMtime, buildRec, dstFile, ledger, clock, scope,
                   fsPath, fsData, proc, config, argv>>

\* publish_artifacts.enforce_git_policy, called as main calls it (lines 92-96)
EnforceGitPolicyCall ==
    /\ last = NoCall
    /\ opsLeft > 0
    /\ opsLeft' = opsLeft - 1
    /\ \E allow_dirty \in BOOLEAN, require_not_behind \in BOOLEAN :
          last' = Call("enforce_git_policy", None, <<>>,
                       <<allow_dirty, require_not_behind, FALSE>>,
                       EnforceGitPolicy(allow_dirty, require_not_behind))
    /\ UNCHANGED <<repo, dataFile, srcFile, srcMtime, buildRec, dstFile, ledger, clock, scope,
                   fsPath, fsData, proc, config, argv>>

\* publish_artifacts.check_artifacts_current, called as main calls it (lines
\* 108-111): in a git repository, with the head commit.
CheckArtifactsCurrentCall ==
    /\ last = NoCall
    /\ opsLeft > 0
    /\ opsLeft' = opsLeft - 1
    /\ Get(GitState, "is_git_repo", FALSE)
    /\ Truthy(Get(GitState, "commit", EmptyStr))
    /\ \E names \in SeqsUpTo(Names, MaxNames) :
          last' = Call("check_artifacts_current", None, names, <<FALSE, FALSE, TRUE>>,
                       CheckArtifactsCurrent(names, Get(GitState, "commit", EmptyStr)))
    /\ UNCHANGED <<repo, dataFile, srcFile, srcMtime, buildRec, dstFile, ledger, clock, scope,
                   fsPath, fsData, proc, config, argv>>

\* publish_artifacts.main; --require-not-behind is left at its default, 1.
PublishArtifacts ==
    /\ last = NoCall
    /\ opsLeft > 0
    /\ opsLeft' = opsLeft - 1
    /\ \E kind \in ScopeKinds, fl \in NotBehindFlags :
       \E names \in SeqsUpTo(ScopeNames(kind), MaxNames) :
          LET r == PublishArtifactsMain(kind, names, fl[1], fl[2], fl[3])
          IN  /\ dstFile' = r.dst
              /\ ledger' = r.ledger
              /\ last' = Call("publish_artifacts", kind, names, fl, r.outcome)
    /\ UNCHANGED <<repo, dataFile, srcFile, srcMtime, buildRec, clock, scope,
                   fsPath, fsData, proc, config, argv>>

\* publish_specific_files.main; of its three flags, which it never reads,
\* --allow-dirty is varied and the other two are left at their defaults.
PublishSpecificFiles ==
    /\ last = NoCall
    /\ opsLeft > 0
    /\ opsLeft' = opsLeft - 1
    /\ \E fl \in DefaultFlags, files \in SeqsUpTo(scope \cup {OutsideFile}, MaxNames) :
          LET r == PublishSpecificFilesMain(files, fl[1], fl[2], fl[3])
          IN  /\ dstFile' = r.dst
              /\ ledger' = r.ledger
              /\ last' = Call("publish_specific_files", None, files, fl, r.outcome)
    /\ UNCHANGED <<repo, dataFile, srcFile, srcMtime, buildRec, clock, scope,
                   fsPath, fsData, proc, config, argv>>

----------------------------------------------------------------------------
(* Spec: building, recording and publishing two artifacts' figures *)

Init ==
    /\ repo = Versioned(TRUE, 0)
    /\ scope = {"figures"} \X Names
    /\ opsLeft = MaxOps
    /\ InitCli
    /\ FsIdle

Next ==
    \/ Exit
    \/ Tick
    \/ GitEdit
    \/ GitCommit
    \/ RunBuild
    \/ RemoveOutput
    \/ WriteBuildRecord
    \/ PublishArtifacts
    \/ PublishSpecificFiles

Spec == Init /\ [][Next]_vars

----------------------------------------------------------------------------
(* SpecBuild: building and recording, with files that come and go *)

InitBuild ==
    /\ repo = Versioned(TRUE, 0)
    /\ scope = OutputFiles
    /\ opsLeft = MaxOps
    /\ InitCli
    /\ FsIdle

NextBuild ==
    \/ Exit
    \/ Tick
    \/ GitEdit
    \/ GitCommit
    \/ RunBuild
    \/ RemoveOutput
    \/ RemoveInput
    \/ WriteBuildRecord

SpecBuild == InitBuild /\ [][NextBuild]_vars

----------------------------------------------------------------------------
(* SpecConfig: config.py is edited and run_analysis.py is run *)

\* The operator edits shared/config.py: sets or removes one key of DEFAULTS
\* or of one study.
EditConfig ==
    /\ last = NoCall
    /\ opsLeft > 0
    /\ opsLeft' = opsLeft - 1
    /\ \E k \in CfgKeys, set \in BOOLEAN :
          \/ /\ set \/ k \in DOMAIN config.DEFAULTS
             /\ config' = [config EXCEPT !.DEFAULTS =
                              IF set THEN Put(@, k, EditValue(k)) ELSE Del(@, k)]
          \/ \E s \in DOMAIN config.STUDIES :
                /\ set \/ k \in DOMAIN config.STUDIES[s]
                /\ config' = [config EXCEPT !.STUDIES[s] =
                                 IF set THEN Put(@, k, EditValue(k)) ELSE Del(@, k)]
    /\ config' # config
    /\ UNCHANGED <<repo, dataFile, srcFile, srcMtime, buildRec, dstFile, ledger, clock,
                   last, scope, fsPath, fsData, proc, argv>>

\* run_analysis.main up to the merged configuration (lines 104-126): an
\* unknown study exits with status 1, else build_config merges.
RunAnalysis ==
    /\ last = NoCall
    /\ opsLeft > 0
    /\ opsLeft' = opsLeft - 1
    /\ \E study_name \in Names \cup {"unknown"}, given \in CommandLines :
          last' = [op |-> "run_analysis",
                   study_name |-> study_name,
                   given |-> given,
                   args |-> Docopt(given),
                   outcome |-> IF study_name \in DOMAIN config.STUDIES
                               THEN Pass ELSE Error("unknown_study", <<study_name>>),
                   study |-> IF study_name \in DOMAIN config.STUDIES
                             THEN BuildConfig(study_name, Docopt(given))
                             ELSE EmptyDict]
    /\ UNCHANGED <<repo, dataFile, srcFile, srcMtime, buildRec, dstFile, ledger, clock,
                   scope, fsPath, fsData, proc, config, argv>>

InitConfig ==
    /\ repo = Unversioned
    /\ scope = {}
    /\ opsLeft = MaxEdits + 1
    /\ InitCli
    /\ FsIdle

NextConfig ==
    \/ Exit
    \/ EditConfig
    \/ RunAnalysis

SpecConfig == InitConfig /\ [][NextConfig]_vars

----------------------------------------------------------------------------
(* SpecArgs: a script started with some command line filters its sys.argv *)

Script == <<"script", ".", "py">>

\* The arguments a command line is made of: plain words and file names,
\* IPython flags with and without value, an IPython configuration option, and
\* script options whose value has or has not a dot.
ArgPool ==
    {<<"arg1">>,
     <<"input", ".", "csv">>,
     <<"--", "simple-prompt">>,
     <<"--", "colors", "=", "NoColor">>,
     <<"--", "InteractiveShell", ".", "colors", "=", "NoColor">>,
     <<"--", "yvar", "=", "price_index">>,
     <<"--", "data", "=", "housing", ".", "csv">>}

\* shared.cli.setup_environment -> filter_ipython_args (line 338)
FilterIpythonArgsCall ==
    /\ last = NoCall
    /\ opsLeft > 0
    /\ opsLeft' = opsLeft - 1
    /\ argv' = FilterIpythonArgs(argv)
    /\ last' = [op |-> "filter_ipython_args", argv |-> argv]
    /\ UNCHANGED <<repo, dataFile, srcFile, srcMtime, buildRec, dstFile, ledger, clock,
                   scope, fsPath, fsData, proc, config>>

InitArgs ==
    /\ repo = Unversioned
    /\ scope = {}
    /\ opsLeft = MaxFilters
    /\ dataFile = 1
    /\ srcFile = [f \in OutputFiles |-> NoFile]
    /\ srcMtime = [f \in OutputFiles |-> 0]
    /\ buildRec = [n \in Names |-> NoYml]
    /\ dstFile = [f \in OutputFiles |-> NoFile]
    /\ ledger = NoYml
    /\ clock = 0
    /\ last = NoCall
    /\ config = ShippedConfig
    /\ argv \in {<<Script>> \o rest : rest \in SeqsUpTo(ArgPool, MaxArgs)}
    /\ FsIdle

NextArgs ==
    \/ Exit
    \/ FilterIpythonArgsCall

SpecArgs == InitArgs /\ [][NextArgs]_vars

----------------------------------------------------------------------------
(* SpecStale: the two staleness checks over builds and commits *)

\* pre_submit_check: PreSubmitChecker(strict).check_provenance()
CheckProvenanceCall ==
    /\ last = NoCall
    /\ opsLeft > 0
    /\ opsLeft' = opsLeft - 1
    /\ \E strict \in BOOLEAN :
          last' = [op |-> "check_provenance", strict |-> strict,
                   outcome |-> CheckProvenance(strict)]
    /\ UNCHANGED <<repo, dataFile, srcFile, srcMtime, buildRec, dstFile, ledger, clock,
                   scope, fsPath, fsData, proc, config, argv>>

InitStale ==
    /\ repo = Versioned(TRUE, 0)
    /\ scope = {}
    /\ opsLeft = MaxOps
    /\ InitCli
    /\ FsIdle

NextStale ==
    \/ Exit
    \/ GitEdit
    \/ GitCommit
    \/ RunBuild
    \/ CheckProvenanceCall
    \/ CheckArtifactsCurrentCall

SpecStale == InitStale /\ [][NextStale]_vars

----------------------------------------------------------------------------
(* SpecKinds: figures and tables of the two artifacts are published *)

InitKinds ==
    /\ repo = Versioned(TRUE, 0)
    /\ scope = OutputFiles
    /\ opsLeft = MaxOps
    /\ InitCli
    /\ FsIdle

NextKinds ==
    \/ Exit
    \/ Tick
    \/ RunBuild
    \/ PublishArtifacts

SpecKinds == InitKinds /\ [][NextKinds]_vars

----------------------------------------------------------------------------
(* SpecPolicy: the policy checks over a repository that changes between
   builds; nothing is built and nothing is published *)

InitPolicy ==
    /\ repo \in {Unversioned} \cup
                {Versioned(u, b) : u \in BOOLEAN, b \in 0..MaxBehind}
    /\ repo.upstream \/ repo.behind = 0
    /\ scope = {}
    /\ opsLeft = MaxOps
    /\ InitCli
    /\ FsIdle

NextPolicy ==
    \/ Exit
    \/ RunBuild
    \/ GitRemove
    \/ GitBreak
    \/ GitEdit
    \/ GitAdd
    \/ GitCommit
    \/ WriteBuildRecord
    \/ CheckGitState
    \/ EnforceGitPolicyCall
    \/ CheckArtifactsCurrentCall

SpecPolicy == InitPolicy /\ [][NextPolicy]_vars

----------------------------------------------------------------------------
(* The temp-then-replace write of write_build_record and save_yml, one step
   per system call *)

cliVars == <<repo, dataFile, srcFile, srcMtime, buildRec, dstFile, ledger, clock, last,
             scope, opsLeft, config, argv>>

RecordPath == <<"price_base.yml">>  \* out_meta of one write_build_record call
LedgerPath == <<"provenance.yml">>  \* <paper_root>/provenance.yml

\* path.with_suffix(path.suffix + ".tmp"): the same name for every caller
TmpPathSame(path) == path
TmpPath(path) == Append(path, ".tmp")

Procs == DOMAIN proc
Inodes == DOMAIN fsData

\* A document is named by its writer and that writer's run; yaml.safe_dump
\* sends it to the file in NChunks writes.
OldDoc == <<"earlier", 0>>
Hole == <<<<"hole", 0>>, 0>>
Dumped(doc) == [i \in 1..NChunks |-> <<doc, i>>]

\* What a reader opening the path gets.
Absent == [exists |-> FALSE, data |-> <<>>]
Content(path) ==
    IF fsPath[path] = NoFile THEN Absent
    ELSE [exists |-> TRUE, data |-> fsData[fsPath[path]]]

InodesInUse ==
    {fsPath[q] : q \in DOMAIN fsPath} \cup {proc[p].fd : p \in Procs}

FreshInode ==
    CHOOSE i \in Inodes \ InodesInUse : \A j \in Inodes \ InodesInUse : i <= j

\* write(2) at the descriptor's offset; a write past the end leaves a hole.
WriteAt(data, off, chunk) ==
    LET n == IF Len(data) > off + 1 THEN Len(data) ELSE off + 1
    IN  [i \in 1..n |-> IF i = off + 1 THEN chunk
                        ELSE IF i <= Len(data) THEN data[i] ELSE Hole]

\* tmp.open("w"): O_CREAT | O_TRUNC on the temp path
StepOpen(p) ==
    LET tmp == TmpPath(proc[p].path)
        ino == IF fsPath[tmp] # NoFile THEN fsPath[tmp] ELSE FreshInode
    IN  /\ proc[p].pc = "start"
        /\ fsPath' = [fsPath EXCEPT ![tmp] = ino]
        /\ fsData' = [fsData EXCEPT ![ino] = <<>>]
        /\ proc' = [proc EXCEPT ![p].pc = "dump", ![p].fd = ino, ![p].off = 0]

\* yaml.safe_dump(obj, f): the next write reaches the file
StepWrite(p) ==
    /\ proc[p].pc = "dump"
    /\ proc[p].off < NChunks
    /\ fsData' = [fsData EXCEPT ![proc[p].fd] =
                     WriteAt(@, proc[p].off, <<proc[p].doc, proc[p].off + 1>>)]
    /\ proc' = [proc EXCEPT ![p].off = @ + 1]
    /\ UNCHANGED fsPath

\* the with block ends: the file is closed
StepClose(p) ==
    /\ proc[p].pc = "dump"
    /\ proc[p].off = NChunks
    /\ proc' = [proc EXCEPT ![p].pc = "replace", ![p].fd = NoFile]
    /\ UNCHANGED <<fsPath, fsData>>

\* tmp.replace(path): rename(2), FileNotFoundError when the temp path is gone
StepReplace(p) ==
    LET path == proc[p].path
        tmp == TmpPath(path)
    IN  /\ proc[p].pc = "replace"
        /\ IF fsPath[tmp] = NoFile
           THEN /\ proc' = [proc EXCEPT ![p].pc = "raised"]
                /\ UNCHANGED fsPath
           ELSE /\ proc' = [proc EXCEPT ![p].pc = "done"]
                /\ fsPath' = [q \in DOMAIN fsPath |->
                                 IF q = path THEN fsPath[tmp]
                                 ELSE IF q = tmp THEN NoFile ELSE fsPath[q]]
        /\ UNCHANGED fsData

\* A call about to write its document to path; before is what the path holds
\* as the call starts.
Process(name, path, before) ==
    [pc |-> "start", fd |-> NoFile, off |-> 0, doc |-> <<name, 1>>, run |-> 1,
     path |-> path, before |-> before]

\* The path is absent or holds a complete earlier document; no temp file.
InitFs(path, names) ==
    /\ \E present \in BOOLEAN :
          /\ fsPath = [q \in {path, TmpPath(path)} |->
                          IF q = path /\ present THEN 1 ELSE NoFile]
          /\ fsData = [i \in 1..(Cardinality(names) + 2) |->
                          IF i = 1 /\ present THEN Dumped(OldDoc) ELSE <<>>]
          /\ proc = [p \in names |->
                        Process(p, path,
                                IF present
                                THEN [exists |-> TRUE, data |-> Dumped(OldDoc)]
                                ELSE Absent)]

\* The repository and the paper tree while one write is followed step by step.
CliIdle ==
    /\ repo = Versioned(TRUE, 0)
    /\ scope = {}
    /\ opsLeft = 0
    /\ InitCli

----------------------------------------------------------------------------
(* SpecRecord: write_build_record on one record path, killed at any point and
   run again *)

WriteBuildRecordOpen ==
    /\ \E p \in Procs : StepOpen(p)
    /\ UNCHANGED cliVars

WriteBuildRecordDump ==
    /\ \E p \in Procs : StepWrite(p)
    /\ UNCHANGED cliVars

WriteBuildRecordClose ==
    /\ \E p \in Procs : StepClose(p)
    /\ UNCHANGED cliVars

WriteBuildRecordReplace ==
    /\ \E p \in Procs : StepReplace(p)
    /\ UNCHANGED cliVars

\* The process is killed before its final rename; the kernel closes its file.
Interrupt ==
    /\ \E p \in Procs :
          /\ proc[p].pc \in {"start", "dump", "replace"}
          /\ proc' = [proc EXCEPT ![p].pc = "killed", ![p].fd = NoFile]
    /\ UNCHANGED <<fsPath, fsData>>
    /\ UNCHANGED cliVars

\* The build script is run again.
Rerun ==
    /\ \E p \in Procs :
          /\ proc[p].pc \in {"done", "killed"}
          /\ proc[p].run < MaxRuns
          /\ proc' = [proc EXCEPT ![p].pc = "start", ![p].off = 0,
                                  ![p].run = @ + 1,
                                  ![p].doc = <<p, proc[p].run + 1>>,
                                  ![p].before = Content(proc[p].path)]
    /\ UNCHANGED <<fsPath, fsData>>
    /\ UNCHANGED cliVars

InitRecord ==
    /\ CliIdle
    /\ InitFs(RecordPath, {"build"})

NextRecord ==
    \/ WriteBuildRecordOpen
    \/ WriteBuildRecordDump
    \/ WriteBuildRecordClose
    \/ WriteBuildRecordReplace
    \/ Interrupt
    \/ Rerun

SpecRecord == InitRecord /\ [][NextRecord]_vars

----------------------------------------------------------------------------
(* SpecRace: two publish invocations in save_yml on one ledger path *)

SaveYmlOpen ==
    /\ \E p \in Procs : StepOpen(p)
    /\ UNCHANGED cliVars

SaveYmlDump ==
    /\ \E p \in Procs : StepWrite(p)
    /\ UNCHANGED cliVars

SaveYmlClose ==
    /\ \E p \in Procs : StepClose(p)
    /\ UNCHANGED cliVars

SaveYmlReplace ==
    /\ \E p \in Procs : StepReplace(p)
    /\ UNCHANGED cliVars

InitRace ==
    /\ CliIdle
    /\ InitFs(LedgerPath, {"publish_a", "publish_b"})

NextRace ==
    \/ SaveYmlOpen
    \/ SaveYmlDump
    \/ SaveYmlClose
    \/ SaveYmlReplace

SpecRace == InitRace /\ [][NextRace]_vars

----------------------------------------------------------------------------
(* Reading the invocation that just ran *)

IsPublish == last.op \in {"publish_artifacts", "publish_specific_files"}
PublishedOk == IsPublish /\ Succeeded(last.outcome)

\* The output files the invocation named (a name under --kind, or a path).
NamedFiles ==
    IF last.op = "publish_artifacts"
    THEN {<<last.kind, last.names[i]>> : i \in DOMAIN last.names}
    ELSE {last.names[i] : i \in DOMAIN last.names}

\* The ledger entry of output file f in ledger file l, in the addressing mode
\* of the invocation that just ran; NoneRecord if there is none.
EntryIn(l, f) ==
    IF l = NoYml THEN NoneRecord
    ELSE IF last.op = "publish_artifacts"
    THEN Get(Get(Get(l, "artifacts", EmptyDict), f[2], EmptyDict), f[1], NoneRecord)
    ELSE Get(Get(l, "files", EmptyDict), f, NoneRecord)

PaperTreeUntouched == dstFile = last.pre.dst /\ ledger = last.pre.ledger

----------------------------------------------------------------------------
(* Claims on the build record *)

\* The record_provenance invocation that just ran, and its artifact.
IsRecord == last.op = "write_build_record"
Recorded == last.names[1]

\* C17: write_build_record given a path that does not exist fails and leaves
\* the record path as it was (no record created, none replaced); and no
\* record lists a file that was missing when the record was written.
C17_MissingPathWritesNothing ==
    /\ (IsRecord /\ ~PathsExist(Recorded, srcFile))
          => /\ last.outcome.verdict = "error"
             /\ buildRec = last.pre.rec
    /\ \A n \in Names :
          buildRec[n] # NoYml =>
              /\ \A i \in DOMAIN buildRec[n].inputs :
                    buildRec[n].inputs[i].sha256 # Sha256(NoFile)
              /\ \A i \in DOMAIN buildRec[n].outputs :
                    buildRec[n].outputs[i].sha256 # Sha256(NoFile)

\* C17 witness: with an output file deleted, a call has failed and the
\* record of the earlier build is still in place.
C17_Witness ==
    /\ IsRecord
    /\ dataFile # NoFile
    /\ ~PathsExist(Recorded, srcFile)
    /\ last.outcome.verdict = "error"
    /\ buildRec[Recorded] # NoYml
    /\ buildRec[Recorded] = last.pre.rec[Recorded]

\* The two records agree in everything but built_at_utc.
SameButBuiltAt(r1, r2) ==
    /\ DOMAIN r1 = DOMAIN r2
    /\ \A k \in DOMAIN r1 \ {"built_at_utc"} : r1[k] = r2[k]

\* The step has written the record of n, and the record is the one of this
\* call alone: its artifact, its time, the repository state, its files.
WroteOwnRecord(n) ==
    /\ buildRec'[n] # NoYml
    /\ DOMAIN buildRec'[n] = {"artifact", "built_at_utc", "command", "git", "inputs", "outputs"}
    /\ buildRec'[n].artifact = n
    /\ buildRec'[n].built_at_utc = NowUtcIso
    /\ buildRec'[n].command \in {<<"make", n>>, <<"python", n, "--data", "housing">>}
    /\ buildRec'[n].git = GitState
    /\ buildRec'[n].inputs = << [path |-> "housing", sha256 |-> Sha256(dataFile),
                                 bytes |-> dataFile, mtime |-> DataMtime] >>
    /\ buildRec'[n].outputs = [i \in 1..2 |->
                                 LET f == DeclaredOutputs(n)[i]
                                 IN  [path |-> f, sha256 |-> Sha256(srcFile'[f]),
                                      bytes |-> srcFile'[f], mtime |-> srcMtime'[f]]]

\* The two records come from calls with the same arguments and repository
\* state, on files of the same content.
SameCall(r1, r2) ==
    /\ r1.artifact = r2.artifact
    /\ r1.command = r2.command
    /\ r1.git = r2.git
    /\ \A i \in DOMAIN r1.inputs : r1.inputs[i].sha256 = r2.inputs[i].sha256
    /\ \A i \in DOMAIN r1.outputs : r1.outputs[i].sha256 = r2.outputs[i].sha256

\* No file of the two records was written between the two calls.
SameMtimes(r1, r2) ==
    /\ \A i \in DOMAIN r1.inputs : r1.inputs[i].mtime = r2.inputs[i].mtime
    /\ \A i \in DOMAIN r1.outputs : r1.outputs[i].mtime = r2.outputs[i].mtime

\* C18 as stated: a call that writes a record leaves the record of this call
\* alone, and when the record it replaces came from a call with the same
\* arguments, file contents and repository state, the two differ only in
\* built_at_utc.
C18_SameContentsSameRecord ==
    [][\A n \in Names :
          buildRec'[n] # buildRec[n] =>
              /\ WroteOwnRecord(n)
              /\ (buildRec[n] # NoYml /\ SameCall(buildRec[n], buildRec'[n]))
                    => SameButBuiltAt(buildRec[n], buildRec'[n])]_vars

\* C18: a call that writes a record leaves the record of this call alone,
\* nothing of the record it replaces; when that one came from a call with the
\* same arguments and repository state on files of the same content that were
\* not written in between (same st_mtime), the two differ only in
\* built_at_utc.
C18_RebuildOverwrites ==
    [][\A n \in Names :
          buildRec'[n] # buildRec[n] =>
              /\ WroteOwnRecord(n)
              /\ (/\ buildRec[n] # NoYml
                  /\ SameCall(buildRec[n], buildRec'[n])
                  /\ SameMtimes(buildRec[n], buildRec'[n]))
                    => SameButBuiltAt(buildRec[n], buildRec'[n])]_vars

\* C18 witness: a second record_provenance call, a second later, has replaced
\* the record of the first with one that differs in built_at_utc alone.
C18_Witness ==
    /\ IsRecord
    /\ Succeeded(last.outcome)
    /\ last.pre.rec[Recorded] # NoYml
    /\ last.pre.rec[Recorded].command = <<"make", Recorded>>
    /\ last.pre.rec[Recorded].built_at_utc # buildRec[Recorded].built_at_utc
    /\ SameButBuiltAt(last.pre.rec[Recorded], buildRec[Recorded])

----------------------------------------------------------------------------
(* Claims on the policy checks *)

\* The invocation that just ran is one of the policy checks.
IsPolicyCheck == last.op \in {"check_git_state", "enforce_git_policy"}

\* The names the invocation was given.
NamesGiven == {last.names[i] : i \in DOMAIN last.names}

\* The named artifacts whose build record was written from a dirty tree.
DirtyBuiltNames ==
    {n \in NamesGiven :
        /\ buildRec[n] # NoYml
        /\ Get(buildRec[n].git, "dirty", FALSE)}

\* C11: when git_state reports no repository, the policy check
\* (check_git_state.main, enforce_git_policy) passes whatever the flags and
\* the names, also when a named artifact's build record is marked dirty.
C11_UnversionedPasses ==
    (IsPolicyCheck /\ ~Get(GitState, "is_git_repo", FALSE)) => last.outcome = Pass

\* C11 witness: outside version control, the checker has passed an artifact
\* whose record was built from a dirty tree, with allow_dirty = 0.
C11_Witness ==
    /\ last.op = "check_git_state"
    /\ ~repo.versioned
    /\ ~last.allow_dirty
    /\ last.require_not_behind
    /\ last.require_current_head
    /\ DirtyBuiltNames # {}
    /\ last.outcome = Pass

\* git_state sees a repository with uncommitted changes.
TreeDirty == Get(GitState, "is_git_repo", FALSE) /\ (repo.unstaged \/ repo.staged)

\* C12: in a repository with a dirty working tree and allow_dirty = 0, the
\* policy check rejects, and with the dirty-tree violation, whatever else is
\* wrong (branch behind upstream, named artifacts built dirty or stale).
C12_DirtyTreeFirst ==
    (IsPolicyCheck /\ TreeDirty /\ ~last.allow_dirty)
        => last.outcome = Reject("dirty_tree", <<>>)

\* C12 witness: the checker has reported the dirty tree while the branch was
\* behind upstream and a named artifact was built from a dirty tree.
C12_Witness ==
    /\ last.op = "check_git_state"
    /\ TreeDirty
    /\ ~last.allow_dirty
    /\ last.require_not_behind
    /\ repo.upstream /\ repo.behind > 0
    /\ DirtyBuiltNames # {}
    /\ Rejected(last.outcome)
    /\ last.outcome.reason = "dirty_tree"

\* C13: in a repository that passed the dirty-tree test, the policy check
\* rejects with the behind-upstream violation, naming the count, exactly when
\* require_not_behind is set and the branch is behind its upstream by one
\* commit or more; without an upstream, or level with it, this test passes.
C13_BehindExactly ==
    (/\ IsPolicyCheck
     /\ Get(GitState, "is_git_repo", FALSE)
     /\ ~(TreeDirty /\ ~last.allow_dirty))
        => ((Rejected(last.outcome) /\ last.outcome.reason = "behind")
               <=> (last.require_not_behind /\ repo.upstream /\ repo.behind > 0))
           /\ ((Rejected(last.outcome) /\ last.outcome.reason = "behind")
                  => last.outcome.detail = <<repo.behind>>)

\* C13 witness: the gate has refused a clean tree that is behind upstream.
C13_Witness ==
    /\ IsPolicyCheck
    /\ ~TreeDirty
    /\ last.require_not_behind
    /\ repo.upstream /\ repo.behind > 0
    /\ Rejected(last.outcome)
    /\ last.outcome.reason = "behind"

\* C14: with allow_dirty = 0 in a clean repository that is not behind, the
\* standalone checker and the publish invocation alike reject when a named
\* artifact's build record was written from a dirty tree, and the one
\* rejection names every such artifact.
C14_DirtyBuiltRejected ==
    (/\ last.op \in {"check_git_state", "publish_artifacts"}
     /\ ~last.allow_dirty
     /\ Get(GitState, "is_git_repo", FALSE)
     /\ ~TreeDirty
     /\ ~(repo.upstream /\ repo.behind > 0)
     /\ DirtyBuiltNames # {})
        => /\ Rejected(last.outcome)
           /\ last.outcome.reason = "dirty_artifacts"
           /\ {last.outcome.detail[i] : i \in DOMAIN last.outcome.detail}
                 = DirtyBuiltNames

\* The named artifacts whose build record, as write_build_record wrote it,
\* holds a commit other than the current head.
StaleNames ==
    {n \in {last.names[i] : i \in DOMAIN last.names} :
        /\ buildRec[n] # NoYml
        /\ "commit" \in DOMAIN buildRec[n].git
        /\ buildRec[n].git.commit # repo.head}

\* C1: in a versioned repository with require_current_head set, the policy
\* check (check_git_state.main, check_artifacts_current) rejects whenever a
\* named artifact's build record holds a commit other than the current head,
\* and a staleness rejection lists every such artifact with the old and the
\* new commit.
C1_StaleArtifactsRejected ==
    (/\ last.op \in {"check_git_state", "check_artifacts_current"}
     /\ last.require_current_head
     /\ repo.versioned /\ ~repo.broken
     /\ StaleNames # {})
        => /\ Rejected(last.outcome)
           /\ last.outcome.reason = "stale" =>
                 /\ {d[1] : d \in {last.outcome.detail[i] :
                                     i \in DOMAIN last.outcome.detail}} = StaleNames
                 /\ \A i \in DOMAIN last.outcome.detail :
                       LET d == last.outcome.detail[i]
                       IN  /\ d[2] = Short(buildRec[d[1]].git.commit)
                           /\ d[3] = Short(repo.head)

----------------------------------------------------------------------------
(* Claims on the temp-then-replace writes *)

Complete(content) ==
    content.exists /\ \E p \in Procs, r \in 0..MaxRuns :
                         content.data = Dumped(<<p, r>>)

CompleteOrEarlier(content) ==
    \/ content = Absent
    \/ content.exists /\ content.data = Dumped(OldDoc)
    \/ Complete(content)

\* C4: while two publish invocations race in save_yml, the ledger path always
\* holds a complete document (one writer's whole output, or the ledger from
\* before the race, or nothing yet), never a torn or partial file.
C4_NoTornLedger == CompleteOrEarlier(Content(LedgerPath))

\* C5: from the start of a write_build_record call up to its final rename,
\* killed or not, the record path holds what it held when the call started,
\* which is a complete earlier record or no record; after the rename it holds
\* the complete new record.
C5_RecordWriteAtomic ==
    \A p \in Procs :
        /\ proc[p].pc \in {"dump", "replace", "killed"} =>
              /\ Content(RecordPath) = proc[p].before
              /\ CompleteOrEarlier(Content(RecordPath))
        /\ proc[p].pc = "done" =>
              Content(RecordPath) = [exists |-> TRUE, data |-> Dumped(proc[p].doc)]

\* C5 witness: the second run is killed with the new record half written to
\* the temp path, and the record path still holds the first run's record.
C5_Witness ==
    \E p \in Procs :
        /\ proc[p].pc = "killed"
        /\ proc[p].run = 2
        /\ proc[p].off \in 1..(NChunks - 1)
        /\ Content(TmpPath(RecordPath)).exists
        /\ Len(Content(TmpPath(RecordPath)).data) = proc[p].off
        /\ Content(RecordPath) = [exists |-> TRUE, data |-> Dumped(<<p, 1>>)]

----------------------------------------------------------------------------
(* Claims on the publishers *)

\* C2: in both addressing modes, a publish invocation whose tree-level policy
\* check fails (dirty tree without allow_dirty, or behind upstream with
\* require_not_behind) copies no file and leaves the ledger file untouched.
C2_PolicyFailureCopiesNothing ==
    (IsPublish /\ Rejected(EnforceGitPolicy(last.allow_dirty, last.require_not_behind)))
        => PaperTreeUntouched

\* C3: a publish invocation has no partial success: either it succeeds, and
\* every named file is in the destination tree with the source's content and
\* has a ledger entry, or no destination file and no ledger entry changed.
C3_NoPartialPublish ==
    IsPublish =>
        \/ /\ Succeeded(last.outcome)
           /\ \A f \in NamedFiles :
                 dstFile[f] = srcFile[f] /\ EntryIn(ledger, f) # NoneRecord
        \/ PaperTreeUntouched

\* C6: the ledger never holds an 'artifacts' section and a 'files' section
\* at once.
C6_ModesExclusive ==
    ledger # NoYml => ~({"artifacts", "files"} \subseteq DOMAIN ledger)

\* C7: when a published file's destination already had the source's content,
\* the entry gets copied = false and keeps the published_at_utc the entry had
\* before the call.
C7_PublishedAtKept ==
    PublishedOk =>
        \A f \in NamedFiles :
            (last.pre.dst[f] = srcFile[f] /\ EntryIn(last.pre.ledger, f) # NoneRecord)
                => /\ ~EntryIn(ledger, f).copied
                   /\ EntryIn(ledger, f).published_at_utc
                        = EntryIn(last.pre.ledger, f).published_at_utc

\* The invocation names output file f exactly once.
NamedOnce(f) ==
    Cardinality({i \in DOMAIN last.names :
                    f = IF last.op = "publish_artifacts"
                        THEN <<last.kind, last.names[i]>> ELSE last.names[i]}) = 1

\* C8: publishing an unchanged source twice: the call that finds no
\* destination file makes the copy (and records copied = true when it names
\* the file once); the call that finds the destination and the entry left by
\* an earlier publish of the same content does not copy (copied = false) and
\* records the same dst_sha256 again.
C8_SecondPublishSkips ==
    PublishedOk =>
        \A f \in NamedFiles :
            LET prior == EntryIn(last.pre.ledger, f)
                entry == EntryIn(ledger, f)
            IN  /\ last.pre.dst[f] = NoFile =>
                      /\ dstFile[f] = srcFile[f]
                      /\ entry.dst_sha256 = Sha256(srcFile[f])
                      /\ NamedOnce(f) => entry.copied
                /\ (/\ prior # NoneRecord
                    /\ prior.dst_sha256 = Sha256(srcFile[f])
                    /\ last.pre.dst[f] = srcFile[f])
                      => ~entry.copied /\ entry.dst_sha256 = prior.dst_sha256

\* C8 witness: a second publish of the same content has found the file and
\* the entry left by the first.
C8_Witness ==
    /\ PublishedOk
    /\ \E f \in NamedFiles :
          /\ EntryIn(last.pre.ledger, f) # NoneRecord
          /\ EntryIn(last.pre.ledger, f).copied
          /\ EntryIn(last.pre.ledger, f).dst_sha256 = Sha256(srcFile[f])
          /\ last.pre.dst[f] = srcFile[f]
          /\ ~EntryIn(ledger, f).copied

\* C9: every entry a publish call writes records the digest of the
\* destination file as it is after the copy step; if the destination had
\* other content before that step (for a file the call names once: before the
\* call), the file was copied and the digest is the source's.
C9_DstShaIsDestination ==
    PublishedOk =>
        \A f \in NamedFiles :
            LET entry == EntryIn(ledger, f)
            IN  /\ entry.dst_sha256 = Sha256(dstFile[f])
                /\ (/\ NamedOnce(f)
                    /\ last.pre.dst[f] # NoFile
                    /\ last.pre.dst[f] # srcFile[f])
                      => entry.copied /\ entry.dst_sha256 = Sha256(srcFile[f])

\* C9 witness: a publish call has overwritten a destination file that held
\* other content.
C9_Witness ==
    /\ PublishedOk
    /\ \E f \in NamedFiles :
          /\ NamedOnce(f)
          /\ last.pre.dst[f] # NoFile
          /\ last.pre.dst[f] # srcFile[f]
          /\ EntryIn(ledger, f).copied
          /\ dstFile[f] = srcFile[f]

\* C10: whatever publish invocations ran, every entry of the 'artifacts'
\* section with copied = true records the digest of the content its
\* destination file has now.
C10_CopiedEntriesMatchTree ==
    ledger # NoYml =>
        \A n \in DOMAIN Get(ledger, "artifacts", EmptyDict) :
            \A k \in DOMAIN ledger.artifacts[n] :
                ledger.artifacts[n][k].copied
                    => ledger.artifacts[n][k].dst_sha256 = Sha256(dstFile[<<k, n>>])

\* C15: after a successful publish call the ledger's analysis_git is the
\* repository state git_state returned during that call.
C15_LedgerRepoStateCurrent ==
    PublishedOk => Get(ledger, "analysis_git", NoneRecord) = GitState

\* C16: a successful publish call keeps, unchanged, every entry that earlier
\* calls in the same mode recorded for an output file it does not name.
C16_LedgerCumulative ==
    PublishedOk =>
        \A f \in OutputFiles \ NamedFiles :
            EntryIn(last.pre.ledger, f) # NoneRecord
                => EntryIn(ledger, f) = EntryIn(last.pre.ledger, f)

----------------------------------------------------------------------------
(* Claims on git_state *)

\* The fields of a repository state value.
Fields(g) == DOMAIN g

\* The repository states the program holds: the one git_state returns now
\* and the ones stored in build records.
GitStatesHeld == {GitState} \cup {buildRec[n].git : n \in {m \in Names : buildRec[m] # NoYml}}

\* C19: when git fails unexpectedly (the binary is unavailable, the
\* repository is corrupted) in a versioned directory, the policy check ends
\* with the error git_state raised and does not pass as if the directory
\* were unversioned.
C19_GitFailureRaises ==
    (IsPolicyCheck /\ repo.versioned /\ repo.broken)
        => last.outcome.verdict = "error"

\* C20: a repository state with is_git_repo false has no other field; one
\* with is_git_repo true has commit, branch and dirty.
C20_GitStateFields ==
    \A g \in GitStatesHeld :
        /\ "is_git_repo" \in Fields(g)
        /\ ~g.is_git_repo => Fields(g) = {"is_git_repo"}
        /\ g.is_git_repo => {"commit", "branch", "dirty"} \subseteq Fields(g)

\* C20 witness: outside version control a build record was written while
\* another holds the full state of the repository at its build.
C20_Witness ==
    /\ ~GitState.is_git_repo
    /\ \E n \in Names : buildRec[n] # NoYml /\ ~buildRec[n].git.is_git_repo
    /\ \E n \in Names : buildRec[n] # NoYml /\ buildRec[n].git.is_git_repo

\* C21: in a versioned repository git_state reports dirty exactly when a
\* tracked file has an unstaged or a staged change, and the build record a
\* call writes embeds that flag.
C21_DirtyIffChanged ==
    (repo.versioned /\ ~repo.broken) =>
        /\ GitState.dirty = (repo.unstaged \/ repo.staged)
        /\ (IsRecord /\ Succeeded(last.outcome))
              => buildRec[Recorded].git.dirty = (repo.unstaged \/ repo.staged)

\* C21 witness: with a change staged and none unstaged, a build record was
\* written with dirty = true.
C21_Witness ==
    /\ repo.versioned /\ ~repo.broken
    /\ repo.staged /\ ~repo.unstaged
    /\ IsRecord
    /\ Succeeded(last.outcome)
    /\ buildRec[Recorded].git.dirty

\* C22: in every repository state of a versioned repository, ahead and
\* behind are both null when no upstream is configured, and one is null
\* exactly when the other is.
C22_AheadBehindTogether ==
    \A g \in GitStatesHeld :
        g.is_git_repo =>
            /\ g.upstream = None => (g.ahead = NoCount /\ g.behind = NoCount)
            /\ (g.ahead = NoCount) <=> (g.behind = NoCount)

\* C22 witness: a build record holds the state of a repository without an
\* upstream, with both counts null.
C22_Witness ==
    \E n \in Names :
        /\ buildRec[n] # NoYml
        /\ buildRec[n].git.is_git_repo
        /\ buildRec[n].git.upstream = None
        /\ buildRec[n].git.ahead = NoCount
        /\ buildRec[n].git.behind = NoCount

----------------------------------------------------------------------------
(* Claims on the analysis-level publish *)

IsAnalysisPublish == last.op = "publish_artifacts"

\* The named artifacts that have no build record or no source file of the
\* kind published.
MissingNames ==
    {n \in NamesGiven : buildRec[n] = NoYml \/ srcFile[<<last.kind, n>>] = NoFile}

\* The entries of the ledger's artifacts section, as (name, kind) pairs.
ArtifactsOf(l) == IF l = NoYml THEN EmptyDict ELSE Get(l, "artifacts", EmptyDict)
EntryKeys(l) == {nk \in Names \X Kinds : nk[1] \in DOMAIN ArtifactsOf(l) /\ nk[2] \in DOMAIN ArtifactsOf(l)[nk[1]]}

\* C23: an analysis-level publish naming an artifact without build record
\* or without source file fails and leaves the ledger as it was; unless the
\* policy gate rejected the call before, the error is the "build it first"
\* one, naming a missing artifact; and no entry of the artifacts section has
\* an absent build record.
C23_MissingArtifactFails ==
    /\ (IsAnalysisPublish /\ MissingNames # {}) =>
          /\ ~Succeeded(last.outcome)
          /\ ledger = last.pre.ledger
          /\ ~Rejected(last.outcome) =>
                /\ last.outcome.reason \in {"missing_build_record", "missing_source"}
                /\ last.outcome.detail[1] \in MissingNames
    /\ \A nk \in EntryKeys(ledger) :
          ArtifactsOf(ledger)[nk[1]][nk[2]].build_record # NoYml

\* C23 witness: the artifact was built, its figure was deleted, and the
\* publish naming it has failed on the missing source file.
C23_Witness ==
    /\ IsAnalysisPublish
    /\ last.outcome.verdict = "error"
    /\ last.outcome.reason = "missing_source"
    /\ buildRec[last.outcome.detail[1]] # NoYml
    /\ ledger = last.pre.ledger

----------------------------------------------------------------------------
(* Claims across the checkers *)

\* C24: a run of the policy check, passing or rejecting, changes no file:
\* build records, source outputs, the data, destination files and the
\* ledger are after it what they were before.
C24_CheckChangesNoFile ==
    [][(last.op = "none" /\ last'.op \in {"check_git_state", "enforce_git_policy"})
          => /\ buildRec' = buildRec
             /\ srcFile' = srcFile
             /\ srcMtime' = srcMtime
             /\ dataFile' = dataFile
             /\ dstFile' = dstFile
             /\ ledger' = ledger]_vars

\* C24 witness: the standalone checker has rejected artifacts built from a
\* dirty tree, and their records and files are still in place.
C24_Witness ==
    /\ last.op = "check_git_state"
    /\ Rejected(last.outcome)
    /\ last.outcome.reason = "dirty_artifacts"
    /\ \A n \in NamesGiven : buildRec[n] # NoYml => buildRec[n] = last.pre.rec[n]
    /\ \E n \in NamesGiven : buildRec[n] # NoYml /\ srcFile[<<"figures", n>>] # NoFile

----------------------------------------------------------------------------
(* Claims on the configuration merge *)

RanAnalysis == last.op = "run_analysis" /\ Succeeded(last.outcome)

\* The value the priority order gives to key k: the study's, else DEFAULTS'.
FromConfig(k) ==
    IF k \in DOMAIN config.STUDIES[last.study_name] THEN config.STUDIES[last.study_name][k]
    ELSE config.DEFAULTS[k]
InConfig(k) ==
    k \in (DOMAIN config.STUDIES[last.study_name]) \cup (DOMAIN config.DEFAULTS)

\* C25: every configuration key resolves to the command-line value if one
\* was given for it, otherwise to the value of STUDIES[study], otherwise to
\* the value of DEFAULTS.
C25_FixedPriority ==
    RanAnalysis =>
        \A k \in CfgKeys :
            IF OptionOf(k) \in DOMAIN last.given
            THEN k \in DOMAIN last.study /\ last.study[k] = last.given[OptionOf(k)]
            ELSE InConfig(k) => (k \in DOMAIN last.study /\ last.study[k] = FromConfig(k))

\* C26: when the user passes no --table-agg, table_agg resolves to the
\* study's value if it sets one, else to DEFAULTS', and to the docopt
\* default only when neither defines it.
C26_DocoptDefaultLowest ==
    (RanAnalysis /\ "--table-agg" \notin DOMAIN last.given) =>
        /\ "table_agg" \in DOMAIN last.study
        /\ last.study["table_agg"] =
              IF InConfig("table_agg") THEN FromConfig("table_agg") ELSE DocoptDefault

----------------------------------------------------------------------------
(* Claims on filter_ipython_args *)

\* An IPython-specific argument: a flag of IPython, such a flag with a
\* value, or a configuration option --Module.option=value, whose dot is in
\* the name.
RECURSIVE DotInName(_, _)
DotInName(arg, i) ==
    IF i > Len(arg) \/ arg[i] = "=" THEN FALSE
    ELSE arg[i] = "." \/ DotInName(arg, i + 1)

IsIpythonArg(arg) ==
    \/ arg \in IpythonFlags
    \/ \E flag \in IpythonFlags : StartsWith(arg, flag \o <<"=">>)
    \/ StartsWith(arg, <<"--">>) /\ Contains(arg, "=") /\ DotInName(arg, 1)

NotIpythonArg(arg) == ~IsIpythonArg(arg)

\* C27: filter_ipython_args keeps the script name and every argument that
\* is not IPython-specific, in their order.
C27_KeepsOrdinaryArgs ==
    last.op = "filter_ipython_args" =>
        /\ argv[1] = last.argv[1]
        /\ SelectSeq(Tail(argv), NotIpythonArg) = SelectSeq(Tail(last.argv), NotIpythonArg)

----------------------------------------------------------------------------
(* Claims comparing the checkers *)

\* The verdict of the standalone checker on the tree-level policy alone: its
\* rejections of named artifacts come after the tree has passed.
TreeVerdict(outcome) ==
    IF Rejected(outcome) /\ outcome.reason \in {"dirty_tree", "behind"}
    THEN outcome ELSE Pass

\* C28: in every repository state, for every allow_dirty and
\* require_not_behind, the verdict of the standalone checker on the
\* tree-level policy, with no artifact or any one artifact named and its
\* artifact checks on, is the verdict of the publisher's gate.
C28_CheckerMatchesGate ==
    \A ad \in BOOLEAN, rnb \in BOOLEAN :
        \A names \in {<<>>} \cup {<<n>> : n \in Names} :
            TreeVerdict(CheckGitStateMain(ad, rnb, TRUE, names)) = EnforceGitPolicy(ad, rnb)

\* C28 witness: the standalone checker has rejected a branch behind its
\* upstream, and the gate rejects it with the same count.
C28_Witness ==
    /\ last.op = "check_git_state"
    /\ Rejected(last.outcome)
    /\ last.outcome.reason = "behind"
    /\ EnforceGitPolicy(last.allow_dirty, last.require_not_behind) = last.outcome

\* The artifacts check_artifacts_current reports stale when given every
\* artifact and the head commit, as publish_artifacts.main calls it.
PublisherStale ==
    LET all == <<"price_base", "remodel_base">>
        stale == StaleFrom(all, 1, Get(GitState, "commit", EmptyStr))
    IN  {stale[i][1] : i \in DOMAIN stale}

\* C29: the pre-submission check reports an artifact stale exactly when the
\* publisher's require_current_head check does, for the build records
\* write_build_record wrote and the head commit of the moment.
C29_SameStaleArtifacts ==
    last.op = "check_provenance" => last.outcome.stale = PublisherStale

----------------------------------------------------------------------------
(* Claims on the artifacts section *)

\* The entry artifacts[n][k] of ledger file l, NoneRecord if there is none.
ArtifactEntryIn(l, n, k) == Get(Get(ArtifactsOf(l), n, EmptyDict), k, NoneRecord)

\* C30: a successful analysis-level publish of kind K for the names S leaves
\* every entry artifacts[n][k] with n outside S or k other than K as it was,
\* adds no name outside S, and every name of the artifacts section holds an
\* entry for at least one kind.
C30_OnlyNamedKindChanges ==
    /\ (IsAnalysisPublish /\ Succeeded(last.outcome)) =>
          /\ \A n \in Names, k \in Kinds :
                (n \notin NamesGiven \/ k # last.kind) =>
                    ArtifactEntryIn(ledger, n, k) = ArtifactEntryIn(last.pre.ledger, n, k)
          /\ DOMAIN ArtifactsOf(ledger) = (DOMAIN ArtifactsOf(last.pre.ledger)) \cup NamesGiven
    /\ \A n \in DOMAIN ArtifactsOf(ledger) :
          (DOMAIN ArtifactsOf(ledger)[n]) \cap Kinds # {}

\* C30 witness: the table of an artifact was published after its figure, and
\* the figure's entry, written at an earlier time, is still the same.
C30_Witness ==
    /\ IsAnalysisPublish
    /\ Succeeded(last.outcome)
    /\ last.kind = "tables"
    /\ \E n \in NamesGiven :
          /\ ArtifactEntryIn(last.pre.ledger, n, "figures") # NoneRecord
          /\ ArtifactEntryIn(ledger, n, "figures") = ArtifactEntryIn(last.pre.ledger, n, "figures")
          /\ ArtifactEntryIn(ledger, n, "tables") # NoneRecord
          /\ ArtifactEntryIn(ledger, n, "tables").published_at_utc
                # ArtifactEntryIn(ledger, n, "figures").published_at_utc

====
